---- MODULE Spec2Model ----
(***************************************************************************)
(* The IMDS MetadataNoToken scanner (main.go): one sequential run of main  *)
(* over the regions returned by DescribeRegions.  For every region the     *)
(* DescribeInstances paginator is drained into a RegionInstances value,    *)
(* one GetMetricStatistics query is issued per instance, the datapoint     *)
(* sums are added into the instance's counter and one CSV record per       *)
(* instance is handed to the buffered csv.Writer.                          *)
(*                                                                         *)
(* The AWS services and the file system are the environment: every answer  *)
(* of a call is drawn from a small set.                                    *)
(***************************************************************************)
EXTENDS Integers, Sequences, FiniteSets, TLC

VARIABLES
    pc,               \* position of main
    regions,          \* result of retrieveRegions (main.go:66)
    idx,              \* index of the region the for loop of main.go:69 is at
    regionInstances,  \* the RegionInstances value of the current iteration
    pageNum,          \* pages the current paginator has handed out
    mi,               \* position of the loop of main.go:184
    wi,               \* position of the loop of main.go:104
    buffered,         \* content of the csv.Writer's buffer
    file,             \* content of instances.csv on disk
    exit,             \* where log.Fatalf ended the process, if it did
    pages,            \* history: pages NextPage returned for the current region
    results,          \* history: datapoints returned for the current region
    queried,          \* history: InstanceId dimensions queried for the current region
    listed,           \* history: instances the paginators have returned so far
    pageErr,          \* history: the last error NextPage returned
    handed,           \* history: records handed to writeToCSV
    outcome,          \* history: how every finished iteration of main.go:69 ended
    calls             \* history: the calls made to the services and to writeToCSV

vars == <<pc, regions, idx, regionInstances, pageNum, mi, wi, buffered, file,
          exit, pages, results, queried, listed, pageErr, handed, outcome, calls>>

-----------------------------------------------------------------------------
(* Bounds of the model.                                                    *)

MaxRegions == 2
MaxPages == 2
MaxReservations == 2
MaxInstances == 2
MaxDatapoints == 2
BufSize == 6
MantBits == 3

-----------------------------------------------------------------------------
(* Values of the environment.                                              *)

NIL == "nil"
RegionNames == {"us-west-2", "us-east-1"}
InstanceIds == {"123", "234"}
SumValues == {1, 8}
NoError == [api |-> FALSE, code |-> "none"]
PageErrors ==
    { [api |-> TRUE, code |-> "UnauthorizedOperation"],
      [api |-> TRUE, code |-> "UnathorizedOperation"],
      [api |-> TRUE, code |-> "RequestLimitExceeded"],
      [api |-> FALSE, code |-> "timeout"] }

SeqsUpTo(S, n) == UNION { [1..m -> S] : m \in 0..n }

RECURSIVE Flatten(_)
Flatten(ss) == IF ss = <<>> THEN <<>> ELSE Head(ss) \o Flatten(Tail(ss))

RECURSIVE SumSeq(_)
SumSeq(s) == IF s = <<>> THEN 0 ELSE Head(s) + SumSeq(Tail(s))

Distinct(s) == \A i, j \in 1..Len(s) : (i # j /\ s[i] # NIL) => s[i] # s[j]

RegionLists == { s \in SeqsUpTo(RegionNames \cup {NIL}, MaxRegions) : Distinct(s) }

\* a reservation of a DescribeInstances page holds at least one instance
Reservations == SeqsUpTo(InstanceIds, MaxInstances) \ {<<>>}

Pages ==
    { p \in SeqsUpTo(Reservations, MaxReservations) : Len(Flatten(p)) <= MaxInstances }

DatapointLists == SeqsUpTo(SumValues, MaxDatapoints)

-----------------------------------------------------------------------------
(* float64 addition.  The counter and the datapoint sums are float64; the  *)
(* values here are non-negative whole numbers with a mantissa of MantBits  *)
(* bits (53 in float64), rounded to nearest, ties to even.                 *)

RECURSIVE BitLen(_)
BitLen(x) == IF x = 0 THEN 0 ELSE 1 + BitLen(x \div 2)

RECURSIVE Pow2(_)
Pow2(n) == IF n = 0 THEN 1 ELSE 2 * Pow2(n - 1)

RoundFloat(x) ==
    IF BitLen(x) <= MantBits THEN x
    ELSE LET ulp == Pow2(BitLen(x) - MantBits)
             q == x \div ulp
             r == x % ulp
         IN  IF 2 * r < ulp THEN q * ulp
             ELSE IF 2 * r > ulp THEN (q + 1) * ulp
             ELSE IF q % 2 = 0 THEN q * ulp ELSE (q + 1) * ulp

FloatAdd(a, b) == RoundFloat(a + b)

\* strconv.FormatFloat(x, 'f', 2, 64) of a whole number
FormatFloat(x) == ToString(x) \o ".00"

-----------------------------------------------------------------------------
(* The csv.Writer: a record is written field by field, then the line end,  *)
(* into a buffer of BufSize units (one unit per field or line end); a unit *)
(* that finds the buffer full first flushes the buffer to the file.        *)
(* Nothing in main.go calls Flush.                                         *)

EOL == "\n"

csvRecord(record) == record \o <<EOL>>

RECURSIVE bufWrite(_, _)
bufWrite(w, units) ==
    IF units = <<>> THEN w
    ELSE IF Len(w.buf) >= BufSize
         THEN bufWrite([buf |-> <<Head(units)>>, file |-> w.file \o w.buf], Tail(units))
         ELSE bufWrite([buf |-> Append(w.buf, Head(units)), file |-> w.file], Tail(units))

needsFlush(buf, units) == Len(buf) + Len(units) > BufSize

\* the complete records of a file content
RECURSIVE parseCSV(_, _)
parseCSV(units, cur) ==
    IF units = <<>> THEN <<>>
    ELSE IF Head(units) = EOL THEN <<cur>> \o parseCSV(Tail(units), <<>>)
         ELSE parseCSV(Tail(units), Append(cur, Head(units)))

Header == <<"region", "instance-id", "imdsv1 calls">>

Fatal(stage, k) == [stage |-> stage, k |-> k]
Running == Fatal("none", 0)

\* one call for region k (0: before the loop) and how it ended; a NextPage
\* that returned a page ends with the number of instances of the page
Call(op, k, res) == [op |-> op, k |-> k, res |-> res]

-----------------------------------------------------------------------------
Init ==
    /\ pc = "config"
    /\ regions = <<>>
    /\ idx = 0
    /\ regionInstances = [region |-> "", instances |-> <<>>]
    /\ pageNum = 0
    /\ mi = 0
    /\ wi = 0
    /\ buffered = <<>>
    /\ file = <<>>
    /\ exit = Running
    /\ pages = <<>>
    /\ results = <<>>
    /\ queried = <<>>
    /\ listed = 0
    /\ pageErr = [k |-> 0, err |-> NoError]
    /\ handed = <<>>
    /\ outcome = <<>>
    /\ calls = <<>>

\* a log call that reports the failure and returns
logPrintf(stage, k) ==
    /\ pc' = pc
    /\ exit' = Fatal(stage, k)

\* log.Fatalf: os.Exit(1), no deferred call runs, the buffer is dropped
logFatalf(stage, k) ==
    /\ pc' = "fatal"
    /\ exit' = Fatal(stage, k)

\* writeToCSV (main.go:125-133) of one record; flushOK is the answer of the
\* file system when the write has to flush the buffer
writeToCSV(record, k, flushOK, next) ==
    /\ calls' = Append(calls, Call("writeToCSV", k,
                  IF needsFlush(buffered, csvRecord(record)) /\ ~flushOK
                  THEN "error" ELSE "ok"))
    /\ IF needsFlush(buffered, csvRecord(record)) /\ ~flushOK
       THEN /\ logFatalf("csv", k)
            /\ UNCHANGED <<buffered, file, handed>>
       ELSE LET w == bufWrite([buf |-> buffered, file |-> file], csvRecord(record))
            IN  /\ buffered' = w.buf
                /\ file' = w.file
                /\ handed' = Append(handed, [k |-> k, record |-> record])
                /\ pc' = next
                /\ UNCHANGED exit

\* main.go:50-54
LoadConfig ==
    /\ pc = "config"
    /\ \E ok \in BOOLEAN :
         IF ok THEN pc' = "openCSV" /\ UNCHANGED exit
         ELSE logFatalf("config", 0)
    /\ UNCHANGED <<regions, idx, regionInstances, pageNum, mi, wi, buffered, file,
                   pages, results, queried, listed, pageErr, handed, outcome, calls>>

\* main.go:57-62 with openCSV (main.go:115-122)
OpenCSV ==
    /\ pc = "openCSV"
    /\ \E ok \in BOOLEAN, flushOK \in BOOLEAN :
         IF ok THEN writeToCSV(Header, 0, flushOK, "regions")
         ELSE /\ logFatalf("openCSV", 0)
              /\ UNCHANGED <<buffered, file, handed, calls>>
    /\ UNCHANGED <<regions, idx, regionInstances, pageNum, mi, wi,
                   pages, results, queried, listed, pageErr, outcome>>

\* main.go:65-66 with retrieveRegions (main.go:137-144)
RetrieveRegions ==
    /\ pc = "regions"
    /\ \/ /\ calls' = Append(calls, Call("DescribeRegions", 0, "error"))
          /\ logFatalf("regions", 0)
          /\ UNCHANGED <<regions, idx>>
       \/ \E rs \in RegionLists :
            /\ calls' = Append(calls, Call("DescribeRegions", 0, "ok"))
            /\ regions' = rs
            /\ idx' = 1
            /\ pc' = "loop"
            /\ UNCHANGED exit
    /\ UNCHANGED <<regionInstances, pageNum, mi, wi, buffered, file,
                   pages, results, queried, listed, pageErr, handed, outcome>>

\* a loop head that keeps one RegionInstances value for all the regions
NextRegionReuse ==
    /\ pc = "loop"
    /\ IF idx > Len(regions)
       THEN /\ pc' = "done"
            /\ UNCHANGED <<idx, regionInstances, pageNum, pages, results, queried, outcome>>
       ELSE IF regions[idx] = NIL
       THEN /\ idx' = idx + 1
            /\ outcome' = Append(outcome, "nil")
            /\ UNCHANGED <<pc, regionInstances, pageNum, pages, results, queried>>
       ELSE /\ regionInstances' = [regionInstances EXCEPT !.region = regions[idx]]
            /\ pageNum' = 0
            /\ pages' = <<>>
            /\ results' = <<>>
            /\ queried' = <<>>
            /\ pc' = "hasMore"
            /\ UNCHANGED <<idx, outcome>>
    /\ UNCHANGED <<regions, mi, wi, buffered, file, exit, listed, pageErr, handed, calls>>

\* main.go:69-79: the head of the loop over the regions
NextRegion ==
    /\ pc = "loop"
    /\ IF idx > Len(regions)
       THEN /\ pc' = "done"
            /\ UNCHANGED <<idx, regionInstances, pageNum, pages, results, queried, outcome>>
       ELSE IF regions[idx] = NIL
       THEN /\ idx' = idx + 1
            /\ outcome' = Append(outcome, "nil")
            /\ UNCHANGED <<pc, regionInstances, pageNum, pages, results, queried>>
       ELSE /\ regionInstances' = [region |-> regions[idx], instances |-> <<>>]
            /\ pageNum' = 0
            /\ pages' = <<>>
            /\ results' = <<>>
            /\ queried' = <<>>
            /\ pc' = "hasMore"
            /\ UNCHANGED <<idx, outcome>>
    /\ UNCHANGED <<regions, mi, wi, buffered, file, exit, listed, pageErr, handed, calls>>

\* a record-append that leaves out an identifier the list already holds
addInstanceDedup(instances, instance) ==
    IF \E i \in 1..Len(instances) : instances[i].instanceId = instance.instanceId
    THEN instances ELSE Append(instances, instance)

\* addInstance (main.go:147-149)
addInstance(instances, instance) == Append(instances, instance)

\* main.go:168-172: the records of one page, appended in order
RECURSIVE addAll(_, _)
addAll(instances, ids) ==
    IF ids = <<>> THEN instances
    ELSE addAll(addInstance(instances,
                    [instanceId |-> Head(ids), metadataNoTokenCalls |-> 0]),
                Tail(ids))

\* main.go:88-95: main after retrieveInstances returned nil
afterRetrieveInstances(instances) ==
    IF Len(instances) = 0
    THEN /\ pc' = "loop"
         /\ idx' = idx + 1
         /\ outcome' = Append(outcome, "empty")
         /\ UNCHANGED mi
    ELSE /\ pc' = "metrics"
         /\ mi' = 1
         /\ UNCHANGED <<idx, outcome>>

\* a drain loop that fetches a first page whatever the paginator answers
HasMorePagesDoWhile ==
    /\ pc = "hasMore"
    /\ \E more \in BOOLEAN :
         /\ more => pageNum < MaxPages
         /\ calls' = Append(calls, Call("HasMorePages", idx,
                                        IF more THEN "true" ELSE "false"))
         /\ IF more \/ pageNum = 0
            THEN /\ pc' = "nextPage"
                 /\ UNCHANGED <<idx, mi, outcome>>
            ELSE afterRetrieveInstances(regionInstances.instances)
    /\ UNCHANGED <<regions, regionInstances, pageNum, wi, buffered, file, exit,
                   pages, results, queried, listed, pageErr, handed>>

\* main.go:154: the loop condition of retrieveInstances; when the paginator
\* has no more pages retrieveInstances returns nil
HasMorePages ==
    /\ pc = "hasMore"
    /\ \E more \in BOOLEAN :
         /\ more => pageNum < MaxPages
         /\ calls' = Append(calls, Call("HasMorePages", idx,
                                        IF more THEN "true" ELSE "false"))
         /\ IF more
            THEN /\ pc' = "nextPage"
                 /\ UNCHANGED <<idx, mi, outcome>>
            ELSE afterRetrieveInstances(regionInstances.instances)
    /\ UNCHANGED <<regions, regionInstances, pageNum, wi, buffered, file, exit,
                   pages, results, queried, listed, pageErr, handed>>

\* main.go:157-165: what retrieveInstances does with an error of NextPage
isUnauthorized(err) == err.api /\ err.code = "UnathorizedOperation"

\* a retrieveInstances that fetches one page and returns
NextPageOnce ==
    /\ pc = "nextPage"
    /\ \/ \E err \in PageErrors :
            /\ calls' = Append(calls, Call("NextPage", idx, "error"))
            /\ pageErr' = [k |-> idx, err |-> err]
            /\ IF isUnauthorized(err)
               THEN /\ pc' = "loop"
                    /\ idx' = idx + 1
                    /\ outcome' = Append(outcome, "unauthorized")
                    /\ UNCHANGED exit
               ELSE /\ logFatalf("instances", idx)
                    /\ UNCHANGED <<idx, outcome>>
            /\ UNCHANGED <<regionInstances, pageNum, pages, listed, mi>>
       \/ \E page \in Pages :
            /\ listed + Len(Flatten(page)) <= MaxInstances
            /\ calls' = Append(calls, Call("NextPage", idx,
                                        ToString(Len(Flatten(page)))))
            /\ listed' = listed + Len(Flatten(page))
            /\ regionInstances' =
                 [regionInstances EXCEPT
                    !.instances = addAll(regionInstances.instances, Flatten(page))]
            /\ pageNum' = pageNum + 1
            /\ pages' = Append(pages, page)
            /\ afterRetrieveInstances(regionInstances'.instances)
            /\ UNCHANGED <<exit, pageErr>>
    /\ UNCHANGED <<regions, wi, buffered, file, results, queried, handed>>

\* a main that warns about the error of retrieveInstances and goes on with
\* the instances collected before it
NextPagePartial ==
    /\ pc = "nextPage"
    /\ \/ \E err \in PageErrors :
            /\ calls' = Append(calls, Call("NextPage", idx, "error"))
            /\ pageErr' = [k |-> idx, err |-> err]
            /\ IF isUnauthorized(err)
               THEN /\ afterRetrieveInstances(regionInstances.instances)
                    /\ UNCHANGED exit
               ELSE /\ logFatalf("instances", idx)
                    /\ UNCHANGED <<idx, outcome, mi>>
            /\ UNCHANGED <<regionInstances, pageNum, pages, listed>>
       \/ \E page \in Pages :
            /\ listed + Len(Flatten(page)) <= MaxInstances
            /\ calls' = Append(calls, Call("NextPage", idx,
                                        ToString(Len(Flatten(page)))))
            /\ listed' = listed + Len(Flatten(page))
            /\ regionInstances' =
                 [regionInstances EXCEPT
                    !.instances = addAll(regionInstances.instances, Flatten(page))]
            /\ pageNum' = pageNum + 1
            /\ pages' = Append(pages, page)
            /\ pc' = "hasMore"
            /\ UNCHANGED <<idx, outcome, exit, pageErr, mi>>
    /\ UNCHANGED <<regions, wi, buffered, file, results, queried, handed>>

\* main.go:155-172: one NextPage call and the handling of its answer; on the
\* error retrieveInstances returns, main goes on at main.go:83-86
NextPage ==
    /\ pc = "nextPage"
    /\ \/ \E err \in PageErrors :
            /\ calls' = Append(calls, Call("NextPage", idx, "error"))
            /\ pageErr' = [k |-> idx, err |-> err]
            /\ IF isUnauthorized(err)
               THEN /\ pc' = "loop"
                    /\ idx' = idx + 1
                    /\ outcome' = Append(outcome, "unauthorized")
                    /\ UNCHANGED exit
               ELSE /\ logFatalf("instances", idx)
                    /\ UNCHANGED <<idx, outcome>>
            /\ UNCHANGED <<regionInstances, pageNum, pages, listed, mi>>
       \/ \E page \in Pages :
            /\ listed + Len(Flatten(page)) <= MaxInstances
            /\ calls' = Append(calls, Call("NextPage", idx,
                                        ToString(Len(Flatten(page)))))
            /\ listed' = listed + Len(Flatten(page))
            /\ regionInstances' =
                 [regionInstances EXCEPT
                    !.instances = addAll(regionInstances.instances, Flatten(page))]
            /\ pageNum' = pageNum + 1
            /\ pages' = Append(pages, page)
            /\ pc' = "hasMore"
            /\ UNCHANGED <<idx, outcome, exit, pageErr, mi>>
    /\ UNCHANGED <<regions, wi, buffered, file, results, queried, handed>>

\* an aggregation that assigns each datapoint instead of adding it
RECURSIVE addDatapointsAssign(_, _)
addDatapointsAssign(counter, datapoints) ==
    IF datapoints = <<>> THEN counter
    ELSE addDatapointsAssign(Head(datapoints), Tail(datapoints))

\* main.go:209-211
RECURSIVE addDatapoints(_, _)
addDatapoints(counter, datapoints) ==
    IF datapoints = <<>> THEN counter
    ELSE addDatapoints(FloatAdd(counter, Head(datapoints)), Tail(datapoints))

\* a query that is always filtered by the identifier of the first instance
dimensionValueFirst(instances, i) == instances[1].instanceId

\* main.go:189-194: the InstanceId dimension of the query for the i-th instance
dimensionValue(instances, i) == instances[i].instanceId

\* an aggregation that leaves out the instance whose query failed
GetMetricStatisticsSkip ==
    /\ pc = "metrics"
    /\ mi <= Len(regionInstances.instances)
    /\ queried' = Append(queried, dimensionValue(regionInstances.instances, mi))
    /\ \/ /\ calls' = Append(calls, Call("GetMetricStatistics", idx, "error"))
          /\ results' = Append(results, <<>>)
          /\ IF mi = Len(regionInstances.instances)
             THEN pc' = "emit" /\ wi' = 1 /\ mi' = mi + 1
             ELSE pc' = "metrics" /\ mi' = mi + 1 /\ UNCHANGED wi
          /\ UNCHANGED <<regionInstances, exit>>
       \/ \E datapoints \in DatapointLists :
            /\ calls' = Append(calls, Call("GetMetricStatistics", idx, "ok"))
            /\ regionInstances' =
                 [regionInstances EXCEPT
                    !.instances[mi].metadataNoTokenCalls =
                        addDatapoints(@, datapoints)]
            /\ results' = Append(results, datapoints)
            /\ IF mi = Len(regionInstances.instances)
               THEN pc' = "emit" /\ wi' = 1 /\ mi' = mi + 1
               ELSE pc' = "metrics" /\ mi' = mi + 1 /\ UNCHANGED wi
            /\ UNCHANGED exit
    /\ UNCHANGED <<regions, idx, pageNum, buffered, file, pages, listed, pageErr, handed,
                   outcome>>

\* an aggregation that appends a record with the sum instead of updating the
\* record queried
GetMetricStatisticsAppend ==
    /\ pc = "metrics"
    /\ mi <= Len(regionInstances.instances)
    /\ queried' = Append(queried, dimensionValue(regionInstances.instances, mi))
    /\ \/ /\ calls' = Append(calls, Call("GetMetricStatistics", idx, "error"))
          /\ logFatalf("metrics", idx)
          /\ UNCHANGED <<regionInstances, mi, wi, results>>
       \/ \E datapoints \in DatapointLists :
            /\ calls' = Append(calls, Call("GetMetricStatistics", idx, "ok"))
            /\ regionInstances' =
                 [regionInstances EXCEPT
                    !.instances = addInstance(@,
                        [instanceId |-> regionInstances.instances[mi].instanceId,
                         metadataNoTokenCalls |->
                            addDatapoints(regionInstances.instances[mi].metadataNoTokenCalls,
                                          datapoints)])]
            /\ results' = Append(results, datapoints)
            /\ IF mi = Len(regionInstances.instances)
               THEN pc' = "emit" /\ wi' = 1 /\ mi' = mi + 1
               ELSE pc' = "metrics" /\ mi' = mi + 1 /\ UNCHANGED wi
            /\ UNCHANGED exit
    /\ UNCHANGED <<regions, idx, pageNum, buffered, file, pages, listed, pageErr, handed,
                   outcome>>

\* main.go:184-212: one iteration of the loop of retrieveCloudwatchMetrics
GetMetricStatistics ==
    /\ pc = "metrics"
    /\ mi <= Len(regionInstances.instances)
    /\ queried' = Append(queried, dimensionValue(regionInstances.instances, mi))
    /\ \/ /\ calls' = Append(calls, Call("GetMetricStatistics", idx, "error"))
          /\ logFatalf("metrics", idx)
          /\ UNCHANGED <<regionInstances, mi, wi, results>>
       \/ \E datapoints \in DatapointLists :
            /\ calls' = Append(calls, Call("GetMetricStatistics", idx, "ok"))
            /\ regionInstances' =
                 [regionInstances EXCEPT
                    !.instances[mi].metadataNoTokenCalls =
                        addDatapoints(@, datapoints)]
            /\ results' = Append(results, datapoints)
            /\ IF mi = Len(regionInstances.instances)
               THEN pc' = "emit" /\ wi' = 1 /\ mi' = mi + 1
               ELSE pc' = "metrics" /\ mi' = mi + 1 /\ UNCHANGED wi
            /\ UNCHANGED exit
    /\ UNCHANGED <<regions, idx, pageNum, buffered, file, pages, listed, pageErr, handed,
                   outcome>>

\* main.go:105-108
instanceRow(region, e) ==
    <<region, e.instanceId, FormatFloat(e.metadataNoTokenCalls)>>

\* a loop over the instances from the last to the first
rangeBackwards(instances, i) == instances[Len(instances) + 1 - i]

\* main.go:104: the element the i-th iteration of the range loop is at
rangeAt(instances, i) == instances[i]

\* a loop that writes rows only for the instances whose counter is above 0
WriteRowAboveZero ==
    /\ pc = "emit"
    /\ wi <= Len(regionInstances.instances)
    /\ IF rangeAt(regionInstances.instances, wi).metadataNoTokenCalls > 0
       THEN \E flushOK \in BOOLEAN :
              writeToCSV(instanceRow(regions[idx], rangeAt(regionInstances.instances, wi)),
                         idx, flushOK,
                         IF wi = Len(regionInstances.instances) THEN "loop" ELSE "emit")
       ELSE /\ pc' = IF wi = Len(regionInstances.instances) THEN "loop" ELSE "emit"
            /\ UNCHANGED <<buffered, file, handed, calls, exit>>
    /\ IF pc' = "loop"
       THEN idx' = idx + 1 /\ outcome' = Append(outcome, "emitted")
       ELSE UNCHANGED <<idx, outcome>>
    /\ wi' = IF pc' = "fatal" THEN wi ELSE wi + 1
    /\ UNCHANGED <<regions, regionInstances, pageNum, mi, pages, results, queried, listed,
                   pageErr>>

\* main.go:104-110: one iteration of the loop that writes the rows
WriteRow ==
    /\ pc = "emit"
    /\ wi <= Len(regionInstances.instances)
    /\ \E flushOK \in BOOLEAN :
         writeToCSV(instanceRow(regions[idx], rangeAt(regionInstances.instances, wi)), idx,
                    flushOK,
                    IF wi = Len(regionInstances.instances) THEN "loop" ELSE "emit")
    /\ IF pc' = "loop"
       THEN idx' = idx + 1 /\ outcome' = Append(outcome, "emitted")
       ELSE UNCHANGED <<idx, outcome>>
    /\ wi' = IF pc' = "fatal" THEN wi ELSE wi + 1
    /\ UNCHANGED <<regions, regionInstances, pageNum, mi, pages, results, queried, listed,
                   pageErr>>

Next ==
    \/ LoadConfig
    \/ OpenCSV
    \/ RetrieveRegions
    \/ NextRegion
    \/ HasMorePages
    \/ NextPage
    \/ GetMetricStatistics
    \/ WriteRow

Spec == Init /\ [][Next]_vars

\* main is one sequential flow of control: while it has not returned or
\* exited it takes its next step, every call to a service returning
FairSpec == Spec /\ WF_vars(Next)

-----------------------------------------------------------------------------
(* What the histories say.                                                 *)

Last(s) == s[Len(s)]

\* the instance identifiers of the pages returned for the current region
CollectedIds == Flatten(Flatten(pages))

\* positions of the records handed to writeToCSV for region k
RowsOf(k) == { i \in 1..Len(handed) : handed[i].k = k }

\* positions of the calls of operation op made for region k
CallsOf(op, k) == { i \in 1..Len(calls) : calls[i].op = op /\ calls[i].k = k }

\* the complete records of instances.csv
FileRecords == parseCSV(file, <<>>)

InFile(record) == \E i \in 1..Len(FileRecords) : FileRecords[i] = record

AuthorizationDenied(err) == err.api /\ err.code = "UnauthorizedOperation"

PageFetchFailed == pageErr.k > 0

-----------------------------------------------------------------------------
(* C1: a page fetch that fails with the UnauthorizedOperation error code   *)
(* does not end the process: the region gets no row and no metric query    *)
(* and the loop moves on to the next region.                               *)
C1_UnauthorizedSkipsRegion ==
    (PageFetchFailed /\ AuthorizationDenied(pageErr.err)) =>
        /\ exit # Fatal("instances", pageErr.k)
        /\ idx > pageErr.k
        /\ RowsOf(pageErr.k) = {}
        /\ CallsOf("GetMetricStatistics", pageErr.k) = {}

(* C2: a page fetch that fails with anything but the UnauthorizedOperation *)
(* error code ends the process with that call: the call is the last one    *)
(* made.                                                                   *)
C2_OtherPageErrorIsFatal ==
    (PageFetchFailed /\ ~AuthorizationDenied(pageErr.err)) =>
        /\ pc = "fatal"
        /\ exit = Fatal("instances", pageErr.k)
        /\ Last(calls) = Call("NextPage", pageErr.k, "error")

(* C3: when a page fetch or a metric query has ended the process in region *)
(* k, every record handed to writeToCSV for a region before k is a         *)
(* complete record of instances.csv.                                       *)
C3_EarlierRowsInReport ==
    (pc = "fatal" /\ exit.stage \in {"instances", "metrics"}) =>
        \A i \in 1..Len(handed) :
            (handed[i].k >= 1 /\ handed[i].k < exit.k) => InFile(handed[i].record)

C5_RegionListingFailureIsFatal ==
    (\E i \in 1..Len(calls) : calls[i] = Call("DescribeRegions", 0, "error")) =>
        /\ pc = "fatal"
        /\ exit = Fatal("regions", 0)
        /\ Last(calls) = Call("DescribeRegions", 0, "error")
        /\ Cardinality(CallsOf("DescribeRegions", 0)) = 1
        /\ \A i \in 1..Len(calls) :
             calls[i].op \notin {"HasMorePages", "NextPage", "GetMetricStatistics"}
        /\ \A i \in 1..Len(handed) : handed[i].k = 0
        /\ regions = <<>> /\ idx = 0

C5_Witness ==
    /\ pc = "fatal"
    /\ Len(calls) >= 1
    /\ Last(calls) = Call("DescribeRegions", 0, "error")

(* C6: a failed GetMetricStatistics call for region k ends the process: it *)
(* is the last call, region k has no row, also when earlier queries of the *)
(* region had succeeded, and no call or row of a later region exists.      *)
FailedQueries ==
    { i \in 1..Len(calls) :
        calls[i].op = "GetMetricStatistics" /\ calls[i].res = "error" }

C6_MetricQueryFailureIsFatal ==
    (FailedQueries # {}) =>
        /\ pc = "fatal"
        /\ exit = Fatal("metrics", idx)
        /\ FailedQueries = {Len(calls)}
        /\ Last(calls).k = idx
        /\ RowsOf(idx) = {}
        /\ \A i \in 1..Len(calls) : calls[i].k <= idx
        /\ \A i \in 1..Len(handed) : handed[i].k < idx

C6_Witness ==
    /\ pc = "fatal"
    /\ FailedQueries # {}
    /\ Len(results) = 1
    /\ Len(regionInstances.instances) = 2

(* C7: a region whose paginator returned no page, or only pages without    *)
(* instances, is skipped as empty: it gets no row and no metric query, the *)
(* loop moves on, and aggregation only ever runs for a region whose pages  *)
(* held an instance.                                                       *)
C7_EmptyRegionIsSkipped ==
    /\ \A k \in 1..Len(outcome) :
         outcome[k] = "empty" =>
            /\ RowsOf(k) = {}
            /\ CallsOf("GetMetricStatistics", k) = {}
            /\ idx > k
            /\ exit.k # k
    /\ (pc \in {"metrics", "emit"}) => CollectedIds # <<>>
    /\ (pc = "loop" /\ Len(outcome) >= 1 /\ Last(outcome) = "emitted") =>
         CollectedIds # <<>>
    /\ (pc = "loop" /\ Len(outcome) >= 1 /\ Last(outcome) = "empty") =>
         CollectedIds = <<>>

C7_Witness ==
    /\ Len(outcome) = 2
    /\ outcome[1] = "emitted"
    /\ outcome[2] = "empty"
    /\ Len(pages) = 2

(* C8 as claimed: every counter is the arithmetic sum of the datapoint     *)
(* sums its query returned.                                                *)
C8_CounterIsArithmeticSum ==
    \A i \in 1..Len(results) :
        regionInstances.instances[i].metadataNoTokenCalls = SumSeq(results[i])

\* the float64 sum of the first n values of s, taken from left to right
RECURSIVE FloatSum(_, _)
FloatSum(s, n) == IF n = 0 THEN 0 ELSE FloatAdd(FloatSum(s, n - 1), s[n])

\* every partial sum of s is a float64 value
ExactlySummable(s) ==
    \A n \in 1..Len(s) : RoundFloat(SumSeq(SubSeq(s, 1, n))) = SumSeq(SubSeq(s, 1, n))

(* C8 as amended: every counter is the float64 sum of the datapoint sums   *)
(* in returned order, 0 without datapoints; it is their arithmetic sum     *)
(* when every partial sum is a float64 value, and is never above it by     *)
(* more than rounding to nearest allows.                                   *)
C8_CounterIsFloatSum ==
    \A i \in 1..Len(results) :
        LET c == regionInstances.instances[i].metadataNoTokenCalls
        IN  /\ c = FloatSum(results[i], Len(results[i]))
            /\ results[i] = <<>> => c = 0
            /\ ExactlySummable(results[i]) => c = SumSeq(results[i])
            /\ RoundFloat(c) = c

C8_Witness ==
    /\ pc = "emit"
    /\ Len(results) = 2
    /\ results[1] = <<1, 1>>
    /\ results[2] = <<8, 1>>
    /\ regionInstances.instances[1].metadataNoTokenCalls = 2
    /\ regionInstances.instances[2].metadataNoTokenCalls = 8

(* C9: the records handed to writeToCSV are ordered by region in the order *)
(* of the region list, every record names the region it was written for,   *)
(* the records of one region follow the order in which its instances were  *)
(* collected, and a record once handed keeps its place.                    *)
RowsInOrder ==
    /\ \A i, j \in 1..Len(handed) : i < j => handed[i].k <= handed[j].k
    /\ \A i \in 1..Len(handed) :
         handed[i].k >= 1 => handed[i].record[1] = regions[handed[i].k]
    /\ LET k == IF pc = "emit" \/ (pc = "fatal" /\ exit.stage = "csv")
                THEN idx ELSE idx - 1
           rows == SelectSeq(handed, LAMBDA h : h.k = k)
       IN  \/ pc = "emit"
           \/ pc = "fatal" /\ exit.stage = "csv" /\ idx >= 1
           \/ pc \in {"loop", "done"} /\ Len(outcome) >= 1 /\ Last(outcome) = "emitted"
           => /\ Len(rows) = IF pc = "emit" \/ pc = "fatal"
                             THEN wi - 1 ELSE Len(CollectedIds)
              /\ \A j \in 1..Len(rows) : rows[j].record[2] = CollectedIds[j]

C9_RowsInRegionThenInstanceOrder ==
    /\ []RowsInOrder
    /\ [][SubSeq(handed', 1, Len(handed)) = handed]_vars

C9_Witness ==
    /\ pc = "loop"
    /\ Len(handed) = 3
    /\ handed[2].k = 1 /\ handed[3].k = 1
    /\ handed[2].record[2] # handed[3].record[2]

(* C10: the calls are made region by region; within a region every         *)
(* paginator call comes before every metric query, a metric query is only  *)
(* made after HasMorePages has answered false, and a call for a region is  *)
(* only made when every region before it has ended.                        *)
PagerOps == {"HasMorePages", "NextPage"}

C10_RegionAtATime ==
    /\ \A i, j \in 1..Len(calls) : i < j => calls[i].k <= calls[j].k
    /\ \A i, j \in 1..Len(calls) :
         (i < j /\ calls[i].k = calls[j].k /\ calls[i].op = "GetMetricStatistics")
            => calls[j].op \notin PagerOps
    /\ \A j \in 1..Len(calls) :
         calls[j].op = "GetMetricStatistics" =>
            \E i \in 1..(j - 1) : calls[i] = Call("HasMorePages", calls[j].k, "false")
    /\ \A j \in 1..Len(calls) : calls[j].k >= 1 => Len(outcome) >= calls[j].k - 1

C10_Witness ==
    /\ CallsOf("GetMetricStatistics", 1) # {}
    /\ CallsOf("NextPage", 2) # {}
    /\ CallsOf("GetMetricStatistics", 2) # {}

(* C11: every region of the list ends once, as skipped (empty or            *)
(* unauthorized) or as emitted; a skipped region has no row, an emitted     *)
(* region has one row per collected instance, with counter 0 or not, and a  *)
(* region that has ended gets no further row.  An entry of the region list  *)
(* without a name is passed over without a row.                             *)
TerminalStates == {"empty", "unauthorized", "emitted"}

RegionsEndOnce ==
    /\ idx >= 1 => Len(outcome) = idx - 1
    /\ \A k \in 1..Len(outcome) :
         /\ regions[k] # NIL <=> outcome[k] \in TerminalStates
         /\ outcome[k] # "emitted" => RowsOf(k) = {}
         /\ outcome[k] = "emitted" => RowsOf(k) # {}
    /\ (pc \in {"loop", "done"} /\ Len(outcome) >= 1 /\ Last(outcome) = "emitted") =>
         Cardinality(RowsOf(idx - 1)) = Len(CollectedIds)
    /\ pc = "done" => Len(outcome) = Len(regions)

C11_EveryRegionEndsOnce ==
    /\ []RegionsEndOnce
    /\ [][/\ SubSeq(outcome', 1, Len(outcome)) = outcome
          /\ \A k \in 1..Len(outcome) : RowsOf(k)' = RowsOf(k)]_vars

C11_Witness ==
    /\ pc = "done"
    /\ outcome = <<"emitted", "empty">>
    /\ Len(handed) = 3
    /\ handed[2].record[3] = "0.00"
    /\ handed[3].record[3] # "0.00"

(* C12: the scenario of regions us-west-2 and us-east-1, where us-west-2    *)
(* returns the pages [123] and [234] and the datapoint sums [1, 1] and [],  *)
(* and the first page fetch of us-east-1 fails with the authorization      *)
(* error: the rows handed over are (us-west-2, 123, 2.00) and              *)
(* (us-west-2, 234, 0.00) in that order, us-east-1 gets no row and the run *)
(* is not ended by the error.                                              *)
ScenarioRegions == <<"us-west-2", "us-east-1">>

ScenarioPages == << << <<"123">> >>, << <<"234">> >> >>

ScenarioDatapoints == << <<1, 1>>, <<>> >>

ScenarioRows ==
    << [k |-> 0, record |-> Header],
       [k |-> 1, record |-> <<"us-west-2", "123", "2.00">>],
       [k |-> 1, record |-> <<"us-west-2", "234", "0.00">>] >>

ScenarioCalls ==
    << Call("writeToCSV", 0, "ok"), Call("DescribeRegions", 0, "ok"),
       Call("HasMorePages", 1, "true"), Call("NextPage", 1, "1"),
       Call("HasMorePages", 1, "true"), Call("NextPage", 1, "1"),
       Call("HasMorePages", 1, "false"),
       Call("GetMetricStatistics", 1, "ok"), Call("GetMetricStatistics", 1, "ok"),
       Call("writeToCSV", 1, "ok"), Call("writeToCSV", 1, "ok"),
       Call("HasMorePages", 2, "true"), Call("NextPage", 2, "error") >>

C12_Scenario ==
    /\ (/\ regions = ScenarioRegions
        /\ pc = "loop" /\ idx = 2
        /\ pages = ScenarioPages
        /\ results = ScenarioDatapoints) => handed = ScenarioRows
    /\ (/\ regions = ScenarioRegions
        /\ Len(calls) >= Len(ScenarioCalls)
        /\ SubSeq(calls, 1, Len(ScenarioCalls)) = ScenarioCalls
        /\ SubSeq(handed, 1, Len(ScenarioRows)) = ScenarioRows
        /\ pageErr = [k |-> 2, err |-> [api |-> TRUE, code |-> "UnauthorizedOperation"]])
       => /\ pc \in {"loop", "done"}
          /\ exit = Running
          /\ handed = ScenarioRows
          /\ outcome = <<"emitted", "unauthorized">>

(* C13: after a NextPage call for a region has failed, no further call of *)
(* any kind is made for that region, so the fetch is not retried and no    *)
(* later page is fetched, and the region has no row, whatever its earlier   *)
(* pages held.                                                              *)
FailedFetches ==
    { i \in 1..Len(calls) : calls[i].op = "NextPage" /\ calls[i].res = "error" }

C13_FailedFetchEndsRegion ==
    \A i \in FailedFetches :
        /\ \A j \in (i + 1)..Len(calls) : calls[j].k # calls[i].k
        /\ RowsOf(calls[i].k) = {}

C13_Witness ==
    /\ pc = "done"
    /\ \E i \in FailedFetches :
         /\ calls[i].k = 1
         /\ calls[i - 2] = Call("NextPage", 1, "1")
    /\ RowsOf(2) # {}

(* C14: every counter is at least 0 in every state; the additions of      *)
(* main.go:210 take a counter through values that never go down, and no    *)
(* step of main lowers a counter or resets it once the region is being     *)
(* aggregated or written.  The datapoint sums of the MetadataNoToken       *)
(* metric are counts, so none is below 0.                                  *)
Counters == [i \in 1..Len(regionInstances.instances) |->
                regionInstances.instances[i].metadataNoTokenCalls]

\* the counter after the first n datapoints of a query were added
CounterAfter(datapoints, n) == addDatapoints(0, SubSeq(datapoints, 1, n))

CountersNeverBelowZero ==
    /\ \A i \in 1..Len(Counters) : Counters[i] >= 0
    /\ \A i \in 1..Len(results) :
         /\ \A n \in 1..Len(results[i]) :
              CounterAfter(results[i], n) >= CounterAfter(results[i], n - 1)
         /\ Counters[i] = CounterAfter(results[i], Len(results[i]))

CountersStep ==
    pc \in {"metrics", "emit"} =>
        /\ Len(Counters') = Len(Counters)
        /\ \A i \in 1..Len(Counters) : Counters'[i] >= Counters[i]

C14_CountersOnlyGrow ==
    /\ []CountersNeverBelowZero
    /\ [][CountersStep]_vars

C14_Witness ==
    /\ pc = "emit"
    /\ Len(results) = 2
    /\ results[1] = <<1, 8>>
    /\ Counters[1] = 8
    /\ Counters[2] = 16

(* C15: the RegionInstances value of a region starts with its region name *)
(* and no instance, and every row written for a region holds that region's *)
(* name, an identifier returned by that region's paginator and the sum of   *)
(* the datapoints returned by that region's query for that instance.        *)
RowsAreOfTheirRegion ==
    /\ (pc \in {"hasMore", "nextPage"} /\ pages = <<>>) =>
          regionInstances = [region |-> regions[idx], instances |-> <<>>]
    /\ (pc \in {"hasMore", "nextPage", "metrics", "emit"}) =>
          regionInstances.region = regions[idx]
    /\ LET k == IF pc = "emit" \/ pc = "fatal" THEN idx ELSE idx - 1
           rows == SelectSeq(handed, LAMBDA h : h.k = k)
       IN  \/ pc = "emit"
           \/ pc = "fatal" /\ exit.stage = "csv" /\ idx >= 1
           \/ pc \in {"loop", "done"} /\ Len(outcome) >= 1 /\ Last(outcome) = "emitted"
           => \A j \in 1..Len(rows) :
                 rows[j].record =
                    << regions[k], CollectedIds[j],
                       FormatFloat(FloatSum(results[j], Len(results[j]))) >>

C15_NothingCarriedOver ==
    /\ RowsAreOfTheirRegion
    /\ \A i \in 1..Len(handed) :
         handed[i].k >= 1 => handed[i].record[1] = regions[handed[i].k]

C15_Witness ==
    /\ pc = "done"
    /\ outcome = <<"emitted", "emitted">>
    /\ Len(handed) = 3
    /\ handed[2].record[2] = handed[3].record[2]
    /\ handed[2].record[3] # handed[3].record[3]

(* C16: the queries of a region are made one per record of the instance   *)
(* list, in the order of the list, each with the InstanceId dimension set  *)
(* to the identifier of its record: when the queries of a region are done  *)
(* without a failure, the identifiers queried are the identifiers          *)
(* collected, in order, and as many calls were made.                       *)
C16_OneQueryPerRecord ==
    /\ pc = "metrics" =>
         /\ queried = SubSeq(CollectedIds, 1, mi - 1)
         /\ Cardinality(CallsOf("GetMetricStatistics", idx)) = mi - 1
    /\ pc = "emit" =>
         /\ queried = CollectedIds
         /\ Cardinality(CallsOf("GetMetricStatistics", idx)) = Len(CollectedIds)
    /\ (pc \in {"loop", "done"} /\ Len(outcome) >= 1 /\ Last(outcome) = "emitted") =>
         /\ queried = CollectedIds
         /\ Cardinality(CallsOf("GetMetricStatistics", idx - 1)) = Len(CollectedIds)
    /\ Len(results) <= Len(queried)
    /\ Len(queried) <= Len(results) + 1

C16_Witness ==
    /\ pc = "emit"
    /\ queried = <<"234", "123">>
    /\ Len(results) = 2

(* C17: a step of retrieveCloudwatchMetrics leaves the region name, the    *)
(* length of the instance list, the identifiers and their order as they    *)
(* were, and leaves the region list and the report alone; a step of        *)
(* retrieveInstances leaves the region name as it was.  During and after   *)
(* aggregation the identifiers are the ones collected.                     *)
IdsOf(ri) == [i \in 1..Len(ri.instances) |-> ri.instances[i].instanceId]

AggregationFrame ==
    /\ pc = "metrics" =>
         /\ regionInstances'.region = regionInstances.region
         /\ IdsOf(regionInstances') = IdsOf(regionInstances)
         /\ UNCHANGED <<regions, idx, buffered, file, handed>>
    /\ pc \in {"hasMore", "nextPage"} =>
         regionInstances'.region = regionInstances.region

C17_AggregationChangesOnlyCounters ==
    /\ [](pc \in {"metrics", "emit"} => IdsOf(regionInstances) = CollectedIds)
    /\ [][AggregationFrame]_vars

C17_Witness ==
    /\ pc = "emit"
    /\ IdsOf(regionInstances) = <<"123", "234">>
    /\ regionInstances.instances[1].metadataNoTokenCalls = 8
    /\ regionInstances.instances[2].metadataNoTokenCalls = 1

(* C18: with a finite region list and paginators that answer false after  *)
(* finitely many pages the run ends, by the return of main or by           *)
(* log.Fatalf; in the drain loop every NextPage call directly follows a    *)
(* HasMorePages call of its region that answered true, every such answer   *)
(* is followed by one NextPage call, and none follows the answer false.    *)
Ended == pc \in {"done", "fatal"}

DrainPattern ==
    \A i \in 1..Len(calls) :
        /\ calls[i].op = "NextPage" =>
             i > 1 /\ calls[i - 1] = Call("HasMorePages", calls[i].k, "true")
        /\ calls[i].op = "HasMorePages" /\ calls[i].res = "true" =>
             IF i = Len(calls) THEN pc = "nextPage"
             ELSE calls[i + 1].op = "NextPage" /\ calls[i + 1].k = calls[i].k
        /\ calls[i].op = "HasMorePages" /\ calls[i].res = "false" =>
             \A j \in (i + 1)..Len(calls) :
                calls[j].k = calls[i].k => calls[j].op \notin PagerOps

C18_RunEnds ==
    /\ <>Ended
    /\ []DrainPattern

C18_Witness ==
    /\ pc = "done"
    /\ Len(regions) = 2
    /\ Cardinality(CallsOf("NextPage", 1)) = 2
    /\ Cardinality(CallsOf("HasMorePages", 1)) = 3
    /\ Cardinality(CallsOf("NextPage", 2)) = 2

(* C19: when main returns without a fatal error, instances.csv holds the   *)
(* header record followed by every record that was handed to writeToCSV,   *)
(* in the order handed; no accepted record is left out of the file.        *)
HandedRecords == [i \in 1..Len(handed) |-> handed[i].record]

C19_CompleteReportOnReturn ==
    pc = "done" => FileRecords = HandedRecords

====
